---- MODULE Spec2Model ----
(***************************************************************************)
(* Event_hub: the login/signup modal (AuthModal.jsx) and the events        *)
(* listing page (EventsPage: load, filter/sort pipeline, URL projection).  *)
(*                                                                         *)
(* Text is a sequence of one-letter strings over {a, A, b, B}; <<>> is the *)
(* empty (falsy) string.  An optional field is <<>> when absent and <<v>>  *)
(* when present.                                                           *)
(***************************************************************************)
EXTENDS Integers, Sequences, FiniteSets, TLC

VARIABLES
    \* ---- EventsPage state (useState hooks, part_000:33-40)
    events, filteredEvents, loading,
    searchQuery, selectedCategory, selectedType, priceRange, sortBy,
    \* ---- EventsPage environment: the address bar, the component's life,
    \* the load timer and the effects React has scheduled
    urlParams, mounted, timer, pendingEffects,
    \* ---- derive harness: position, the first input and the first output
    pc, firstIn, firstOut,
    \* ---- AuthModal
    modalDef, mode, defaultMode, isOpen, syncPending, closeCalls,
    \* ---- history
    lastOp, userActed, resetDue, navs

vars == << events, filteredEvents, loading, searchQuery, selectedCategory,
           selectedType, priceRange, sortBy, urlParams, mounted, timer,
           pendingEffects, pc, firstIn, firstOut, modalDef, mode, defaultMode, isOpen,
           syncPending, closeCalls, lastOp, userActed, resetDue, navs >>

pageVars == << events, filteredEvents, loading, searchQuery, selectedCategory,
               selectedType, priceRange, sortBy, urlParams, mounted, timer,
               pendingEffects >>

modalVars == << modalDef, mode, defaultMode, isOpen, syncPending, closeCalls,
                resetDue >>

historyVars == << lastOp, userActed, navs >>

harnessVars == << pc, firstIn, firstOut >>

-----------------------------------------------------------------------------
(* Bounds *)

MaxEvents == 3
MaxCloseCalls == 3
MaxNavs == 1

-----------------------------------------------------------------------------
(* Text *)

Absent == << >>
Present(v) == << v >>

\* String.prototype.toLowerCase on one letter
LowerChar(c) == CASE c = "A" -> "a" [] c = "B" -> "b" [] OTHER -> c

ToLowerCase(s) == [i \in 1..Len(s) |-> LowerChar(s[i])]

\* String.prototype.includes: sub occurs in s as a contiguous run
Includes(s, sub) ==
    \E i \in 0..(Len(s) - Len(sub)) :
        \A j \in 1..Len(sub) : s[i + j] = sub[j]

\* UTF-16 code unit of a letter
CodeUnit(c) == CASE c = "A" -> 65 [] c = "B" -> 66 [] c = "a" -> 97 [] OTHER -> 98

\* Collation weights of a letter: the letter itself (primary), then its case
\* (tertiary, lower case first)
PrimaryWeight(c) == IF LowerChar(c) = "a" THEN 1 ELSE 2
TertiaryWeight(c) == IF c = LowerChar(c) THEN 0 ELSE 1

Weight(level, c) ==
    CASE level = "primary"  -> PrimaryWeight(c)
      [] level = "tertiary" -> TertiaryWeight(c)
      [] OTHER              -> CodeUnit(c)

RECURSIVE LexCompare(_, _, _, _)
\* sign of the lexicographic comparison of s and t from position i on, by
\* the letters' weights at the level
LexCompare(level, s, t, i) ==
    IF i > Len(s) /\ i > Len(t) THEN 0
    ELSE IF i > Len(s) THEN -1
    ELSE IF i > Len(t) THEN 1
    ELSE IF Weight(level, s[i]) < Weight(level, t[i]) THEN -1
    ELSE IF Weight(level, s[i]) > Weight(level, t[i]) THEN 1
    ELSE LexCompare(level, s, t, i + 1)

\* String.prototype.localeCompare (default collation): the letters decide;
\* case only breaks a tie between strings with the same letters
LocaleCompare(s, t) ==
    LET p == LexCompare("primary", s, t, 1)
    IN  IF p # 0 THEN p ELSE LexCompare("tertiary", s, t, 1)

-----------------------------------------------------------------------------
(* Event records *)

SORT_KEYS == {"date", "price-low", "price-high", "popularity", "name"}
EVENT_TYPE_OPTIONS == {"", "online", "offline"}
EVENT_CATEGORIES == {"Music", "Tech"}

SLIDER_MIN == 0
SLIDER_MAX == 1000
SLIDER_STEP == 10

Event(id, title, description, location, tags, category, date, price, isOnline, attendees) ==
    [id |-> id, title |-> title, description |-> description,
     location |-> location, tags |-> tags, category |-> category,
     date |-> date, price |-> price, isOnline |-> isOnline,
     attendees |-> attendees]

EventPool ==
    { Event(1, <<"B">>, <<"b">>, <<"b">>, Absent, "Music",
            <<2024, 5, 1>>, 10, TRUE, Present(5)),
      Event(2, <<"a">>, <<"b">>, <<"b">>, Present(<< <<"A", "b">> >>), "Tech",
            <<2024, 4, 1>>, 0, FALSE, Absent),
      Event(3, <<"a">>, <<"b", "b">>, <<"a">>, Present(<< >>), "Music",
            <<2024, 5, 1>>, 500, FALSE, Present(0)),
      Event(4, <<"A", "b">>, <<"b">>, <<"b">>, Absent, "Tech",
            <<2024, 4, 1>>, 10, TRUE, Present(5)),
      Event(5, <<"b">>, <<"B">>, <<"b">>, Present(<< <<"b">>, <<"b", "b">> >>), "Music",
            <<2023, 12, 31>>, 1010, TRUE, Present(0)) }

PoolEvent(i) == CHOOSE e \in EventPool : e.id = i

\* getMockEvents(): the in-memory dataset
MockEvents == << PoolEvent(1), PoolEvent(2), PoolEvent(3) >>

\* new Date(d) as a time value: later dates give larger values
DateValue(d) == (d[1] * 12 + (d[2] - 1)) * 31 + (d[3] - 1)

\* event.attendees || 0
AttendeesOrZero(e) == IF e.attendees = Absent THEN 0 ELSE e.attendees[1]

-----------------------------------------------------------------------------
(* The filter/sort pipeline (the apply-filters effect) *)

\* the search predicate: title, description, location or any tag contains
\* the lower-cased query
MatchesSearch(e, q) ==
    \/ Includes(ToLowerCase(e.title), q)
    \/ Includes(ToLowerCase(e.description), q)
    \/ Includes(ToLowerCase(e.location), q)
    \/ /\ e.tags # Absent
       /\ \E k \in 1..Len(e.tags[1]) : Includes(ToLowerCase(e.tags[1][k]), q)

SearchFilter(list, query) ==
    IF query # << >>
    THEN SelectSeq(list, LAMBDA e : MatchesSearch(e, ToLowerCase(query)))
    ELSE list

CategoryFilter(list, category) ==
    IF category # ""
    THEN SelectSeq(list, LAMBDA e : e.category = category)
    ELSE list

\* variant: a type that is neither online nor offline matches no record
TypeFilterStrict(list, type) ==
    IF type # ""
    THEN IF type = "online" THEN SelectSeq(list, LAMBDA e : e.isOnline)
         ELSE IF type = "offline" THEN SelectSeq(list, LAMBDA e : ~e.isOnline)
         ELSE << >>
    ELSE list

TypeFilter(list, type) ==
    IF type # ""
    THEN IF type = "online" THEN SelectSeq(list, LAMBDA e : e.isOnline)
         ELSE IF type = "offline" THEN SelectSeq(list, LAMBDA e : ~e.isOnline)
         ELSE list
    ELSE list

\* variant: the bounds themselves excluded
InPriceRangeExclusive(e, range) == e.price > range[1] /\ e.price < range[2]

InPriceRange(e, range) == e.price >= range[1] /\ e.price <= range[2]

PriceFilter(list, range) == SelectSeq(list, LAMBDA e : InPriceRange(e, range))

\* variant: a comparator that never answers 0 (x < y ? -1 : 1)
ComparatorNoTie(a, b, key) ==
    CASE key = "date"       -> IF DateValue(a.date) < DateValue(b.date) THEN -1 ELSE 1
      [] key = "price-low"  -> IF a.price < b.price THEN -1 ELSE 1
      [] key = "price-high" -> IF b.price < a.price THEN -1 ELSE 1
      [] key = "popularity" -> IF AttendeesOrZero(b) < AttendeesOrZero(a) THEN -1 ELSE 1
      [] key = "name"       -> IF LocaleCompare(a.title, b.title) < 0 THEN -1 ELSE 1
      [] OTHER              -> 0

\* variant: price-high and popularity ascending
ComparatorAscending(a, b, key) ==
    CASE key = "date"       -> DateValue(a.date) - DateValue(b.date)
      [] key = "price-low"  -> a.price - b.price
      [] key = "price-high" -> a.price - b.price
      [] key = "popularity" -> AttendeesOrZero(a) - AttendeesOrZero(b)
      [] key = "name"       -> LocaleCompare(a.title, b.title)
      [] OTHER              -> 0

\* the comparator handed to Array.prototype.sort
Comparator(a, b, key) ==
    CASE key = "date"       -> DateValue(a.date) - DateValue(b.date)
      [] key = "price-low"  -> a.price - b.price
      [] key = "price-high" -> b.price - a.price
      [] key = "popularity" -> AttendeesOrZero(b) - AttendeesOrZero(a)
      [] key = "name"       -> LocaleCompare(a.title, b.title)
      [] OTHER              -> 0

RECURSIVE InsertSorted(_, _, _)
\* x goes behind every element of the sorted list s it does not precede
InsertSorted(s, x, key) ==
    IF s = << >> THEN << x >>
    ELSE IF Comparator(s[Len(s)], x, key) > 0
         THEN Append(InsertSorted(SubSeq(s, 1, Len(s) - 1), x, key), s[Len(s)])
         ELSE Append(s, x)

RECURSIVE SortFrom(_, _, _, _)
SortFrom(done, list, i, key) ==
    IF i > Len(list) THEN done
    ELSE SortFrom(InsertSorted(done, list[i], key), list, i + 1, key)

\* Array.prototype.sort with the comparator: a stable sort
Sort(list, key) == SortFrom(<< >>, list, 1, key)

Derive(list, query, category, type, range, key) ==
    Sort(PriceFilter(TypeFilter(CategoryFilter(SearchFilter(list, query),
                                               category), type), range), key)

-----------------------------------------------------------------------------
(* Input domains *)

QUERIES == { << >>, <<"a">>, <<"B">> }
TYPE_INPUTS == EVENT_TYPE_OPTIONS \cup {"hybrid"}
SORT_INPUTS == SORT_KEYS \cup {"rating"}
PRICE_RANGES == { <<SLIDER_MIN, SLIDER_MAX>>, <<SLIDER_STEP, 500>> }

\* sequences of distinct pool records (ids are unique), at most n long
RECURSIVE DistinctSeqs(_)
DistinctSeqs(n) ==
    IF n = 0 THEN { << >> }
    ELSE LET shorter == DistinctSeqs(n - 1)
         IN  shorter \cup
             { Append(s, e) : <<s, e>> \in
                 { p \in shorter \X EventPool :
                     /\ Len(p[1]) = n - 1
                     /\ \A k \in 1..Len(p[1]) : p[1][k].id # p[2].id } }

\* the page's query string: search, category, and the other keys present
Url(search, category, others) ==
    [search |-> search, category |-> category, others |-> others]

URLS == { Url(s, c, o) : s \in {Absent, Present(<< >>), Present(<<"a">>)},
                         c \in {Absent, Present("Music")},
                         o \in {{}, {"sort"}} }

\* searchParams.get(key) || ''
GetOrEmpty(param, empty) == IF param = Absent THEN empty ELSE param[1]

-----------------------------------------------------------------------------
(* Initial states of the parts *)

ModalIdle ==
    /\ modalDef = 1 /\ mode = "login" /\ defaultMode = "login"
    /\ isOpen = FALSE /\ syncPending = FALSE /\ closeCalls = 0
    /\ resetDue = FALSE

HarnessIdle == pc = "off" /\ firstIn = << >> /\ firstOut = << >>

\* EventsPage after its first render: state from the useState initialisers,
\* the three effects scheduled
PageInit ==
    /\ urlParams \in URLS
    /\ events = << >>
    /\ filteredEvents = << >>
    /\ loading = TRUE
    /\ searchQuery = GetOrEmpty(urlParams.search, << >>)
    /\ selectedCategory = GetOrEmpty(urlParams.category, "")
    /\ selectedType = ""
    /\ priceRange = <<SLIDER_MIN, SLIDER_MAX>>
    /\ sortBy = "date"
    /\ mounted = TRUE
    /\ timer = "unset"
    /\ pendingEffects = {"load", "filter", "url"}

PageIdle ==
    /\ urlParams = Url(Absent, Absent, {})
    /\ events = << >> /\ filteredEvents = << >> /\ loading = TRUE
    /\ searchQuery = << >> /\ selectedCategory = "" /\ selectedType = ""
    /\ priceRange = <<SLIDER_MIN, SLIDER_MAX>> /\ sortBy = "date"
    /\ mounted = FALSE /\ timer = "unset" /\ pendingEffects = {}

-----------------------------------------------------------------------------
(* EventsPage: effects *)

\* the body of the apply-filters effect
ApplyFilters ==
    /\ filteredEvents' = Derive(events, searchQuery, selectedCategory,
                                selectedType, priceRange, sortBy)
    /\ events' = events

\* load effect: setLoading(true), start the 500 ms timer
LoadEventsEffect ==
    /\ mounted /\ "load" \in pendingEffects
    /\ loading' = TRUE
    /\ timer' = "running"
    /\ pendingEffects' = pendingEffects \ {"load"}
    /\ lastOp' = "loadEffect"
    /\ UNCHANGED << events, filteredEvents, searchQuery, selectedCategory,
                    selectedType, priceRange, sortBy, urlParams, mounted, userActed, navs >>
    /\ UNCHANGED << harnessVars, modalVars >>

\* variant: the updates reach the dismissed view
LoadResolveUnguarded ==
    /\ timer = "running"
    /\ pendingEffects = {}
    /\ timer' = "fired"
    /\ events' = MockEvents
    /\ loading' = FALSE
    /\ pendingEffects' = IF mounted /\ MockEvents # events THEN {"filter"} ELSE {}
    /\ lastOp' = "loadResolve"
    /\ UNCHANGED << filteredEvents, searchQuery, selectedCategory,
                    selectedType, priceRange, sortBy, urlParams, mounted,
                    userActed, navs >>
    /\ UNCHANGED << harnessVars, modalVars >>

\* the continuation after the await: setEvents(mockEvents); setLoading(false).
\* On a dismissed view both updates are dropped.
LoadResolve ==
    /\ timer = "running"
    /\ pendingEffects = {}
    /\ timer' = "fired"
    /\ IF mounted
       THEN /\ events' = MockEvents
            /\ loading' = FALSE
            /\ pendingEffects' = IF MockEvents # events THEN {"filter"} ELSE {}
       ELSE UNCHANGED << events, loading, pendingEffects >>
    /\ lastOp' = "loadResolve"
    /\ UNCHANGED << filteredEvents, searchQuery, selectedCategory,
                    selectedType, priceRange, sortBy, urlParams, mounted, userActed, navs >>
    /\ UNCHANGED << harnessVars, modalVars >>

ApplyFiltersEffect ==
    /\ mounted /\ "filter" \in pendingEffects /\ "load" \notin pendingEffects
    /\ ApplyFilters
    /\ pendingEffects' = pendingEffects \ {"filter"}
    /\ lastOp' = "filterEffect"
    /\ UNCHANGED << loading, searchQuery, selectedCategory, selectedType,
                    priceRange, sortBy, urlParams, mounted, timer, userActed, navs >>
    /\ UNCHANGED << harnessVars, modalVars >>

\* variant: search and category are set even when empty
BuildParamsUnguarded(query, category) ==
    Url(Present(query), Present(category), {})

\* new URLSearchParams() with search and category set when non-empty
BuildParams(query, category) ==
    Url(IF query # << >> THEN Present(query) ELSE Absent,
        IF category # "" THEN Present(category) ELSE Absent,
        {})

\* variant: a two-way sync, the criteria read back from the query string
UpdateUrlParamsEffectTwoWay ==
    /\ mounted /\ pendingEffects = {"url"}
    /\ urlParams' = BuildParams(searchQuery, selectedCategory)
    /\ searchQuery' = GetOrEmpty(urlParams.search, << >>)
    /\ selectedCategory' = GetOrEmpty(urlParams.category, "")
    /\ pendingEffects' = {}
    /\ lastOp' = "urlEffect"
    /\ UNCHANGED << events, filteredEvents, loading, selectedType, priceRange,
                    sortBy, mounted, timer, userActed, navs >>
    /\ UNCHANGED << harnessVars, modalVars >>

\* URL effect: setSearchParams(params).  Whether a changed query string gives
\* the effect a new setSearchParams (and so another run) is the router's
\* choice.
UpdateUrlParamsEffect ==
    /\ mounted /\ pendingEffects = {"url"}
    /\ urlParams' = BuildParams(searchQuery, selectedCategory)
    /\ \/ pendingEffects' = {}
       \/ urlParams' # urlParams /\ pendingEffects' = {"url"}
    /\ lastOp' = "urlEffect"
    /\ UNCHANGED << events, filteredEvents, loading, searchQuery,
                    selectedCategory, selectedType, priceRange, sortBy,
                    mounted, timer, userActed, navs >>
    /\ UNCHANGED << harnessVars, modalVars >>

-----------------------------------------------------------------------------
(* EventsPage: user operations.  A handler runs on a mounted page once the   *)
(* scheduled effects have been flushed.                                      *)

Interactive == mounted /\ pendingEffects = {}

\* variant: sortBy left out of the apply-filters dependency array
ScheduledWithoutSort(q, c, t, k, newRange) ==
    (IF q # searchQuery \/ c # selectedCategory \/ t # selectedType \/ newRange
     THEN {"filter"} ELSE {})
    \cup
    (IF q # searchQuery \/ c # selectedCategory THEN {"url"} ELSE {})

\* the effects whose dependencies the new criteria change
Scheduled(q, c, t, k, newRange) ==
    (IF q # searchQuery \/ c # selectedCategory \/ t # selectedType
        \/ k # sortBy \/ newRange
     THEN {"filter"} ELSE {})
    \cup
    (IF q # searchQuery \/ c # selectedCategory THEN {"url"} ELSE {})

\* one render with the criteria set to (q, c, t, range, k)
SetCriteria(q, c, t, range, k, newRange) ==
    /\ Interactive
    /\ searchQuery' = q
    /\ selectedCategory' = c
    /\ selectedType' = t
    /\ priceRange' = range
    /\ sortBy' = k
    /\ pendingEffects' = Scheduled(q, c, t, k, newRange)
    /\ lastOp' = "user"
    /\ userActed' = TRUE
    /\ UNCHANGED << events, filteredEvents, loading, urlParams, mounted,
                    timer, navs >>
    /\ UNCHANGED << harnessVars, modalVars >>

\* onChange of the search input
TypeSearch ==
    \E q \in QUERIES :
        SetCriteria(q, selectedCategory, selectedType, priceRange, sortBy, FALSE)

\* the X of the search badge
RemoveSearchBadge ==
    /\ searchQuery # << >>
    /\ SetCriteria(<< >>, selectedCategory, selectedType, priceRange, sortBy, FALSE)

\* a category checkbox
ToggleCategory ==
    \E c \in EVENT_CATEGORIES :
        SetCriteria(searchQuery, IF selectedCategory = c THEN "" ELSE c,
                    selectedType, priceRange, sortBy, FALSE)

\* the "All Categories" checkbox and the X of the category badge
ClearCategory ==
    SetCriteria(searchQuery, "", selectedType, priceRange, sortBy, FALSE)

\* the event-type select
SelectType ==
    \E t \in EVENT_TYPE_OPTIONS :
        SetCriteria(searchQuery, selectedCategory, t, priceRange, sortBy, FALSE)

\* the X of the type badge
RemoveTypeBadge ==
    /\ selectedType # ""
    /\ SetCriteria(searchQuery, selectedCategory, "", priceRange, sortBy, FALSE)

\* the slider hands setPriceRange a new array
ChangePriceRange ==
    \E r \in PRICE_RANGES :
        SetCriteria(searchQuery, selectedCategory, selectedType, r, sortBy, TRUE)

\* the sort select
SelectSort ==
    \E k \in SORT_KEYS :
        SetCriteria(searchQuery, selectedCategory, selectedType, priceRange, k, FALSE)

clearFilters ==
    SetCriteria(<< >>, "", "", <<SLIDER_MIN, SLIDER_MAX>>, "date", TRUE)

\* the page is dismissed; nothing cancels the timer
Unmount ==
    /\ mounted
    /\ mounted' = FALSE
    /\ pendingEffects' = {}
    /\ lastOp' = "unmount"
    /\ UNCHANGED << events, filteredEvents, loading, searchQuery,
                    selectedCategory, selectedType, priceRange, sortBy,
                    urlParams, timer, userActed, navs >>
    /\ UNCHANGED << harnessVars, modalVars >>

\* the address changes from outside the page (history, a link)
ExternalNavigate ==
    /\ Interactive
    /\ navs < MaxNavs
    /\ \E u \in URLS : u # urlParams /\ urlParams' = u
    /\ navs' = navs + 1
    /\ lastOp' = "navigate"
    /\ UNCHANGED << events, filteredEvents, loading, searchQuery,
                    selectedCategory, selectedType, priceRange, sortBy,
                    mounted, timer, pendingEffects, userActed >>
    /\ UNCHANGED << harnessVars, modalVars >>

\* what the events grid renders: the skeleton, "No events found", or the
\* result cards
View ==
    IF loading THEN "skeleton"
    ELSE IF Len(filteredEvents) = 0 THEN "empty"
    ELSE "results"

Init ==
    /\ PageInit /\ ModalIdle /\ HarnessIdle
    /\ lastOp = "mount" /\ userActed = FALSE /\ navs = 0

Next ==
    \/ LoadEventsEffect
    \/ LoadResolve
    \/ ApplyFiltersEffect
    \/ UpdateUrlParamsEffect
    \/ TypeSearch
    \/ RemoveSearchBadge
    \/ ToggleCategory
    \/ ClearCategory
    \/ SelectType
    \/ RemoveTypeBadge
    \/ ChangePriceRange
    \/ SelectSort
    \/ clearFilters
    \/ Unmount
    \/ ExternalNavigate

Spec == Init /\ [][Next]_vars

\* the effects React has scheduled run, and the timer's task is not starved
\* by user events
SpecLive ==
    /\ Spec
    /\ WF_vars(LoadEventsEffect)
    /\ WF_vars(ApplyFiltersEffect)
    /\ WF_vars(UpdateUrlParamsEffect)
    /\ SF_vars(LoadResolve)

-----------------------------------------------------------------------------
(* The pipeline on arbitrary inputs: derive(events, criteria), then derive  *)
(* again with the output as the input.                                      *)

InitDerive ==
    /\ events \in DistinctSeqs(MaxEvents)
    /\ searchQuery \in QUERIES
    /\ selectedCategory \in {""} \cup EVENT_CATEGORIES
    /\ selectedType \in TYPE_INPUTS
    /\ priceRange \in PRICE_RANGES
    /\ sortBy \in SORT_INPUTS
    /\ filteredEvents = << >>
    /\ loading = FALSE
    /\ urlParams = Url(Absent, Absent, {})
    /\ mounted = TRUE /\ timer = "fired" /\ pendingEffects = {}
    /\ pc = "input" /\ firstIn = events /\ firstOut = << >>
    /\ ModalIdle
    /\ lastOp = "input" /\ userActed = FALSE /\ navs = 0

DeriveStep ==
    /\ pc \in {"input", "fedback"}
    /\ ApplyFilters
    /\ pc' = IF pc = "input" THEN "derived" ELSE "rederived"
    /\ UNCHANGED << loading, searchQuery, selectedCategory, selectedType,
                    priceRange, sortBy, urlParams, mounted, timer,
                    pendingEffects, firstIn, firstOut >>
    /\ UNCHANGED << modalVars, historyVars >>

FeedBack ==
    /\ pc = "derived"
    /\ events' = filteredEvents
    /\ firstOut' = filteredEvents
    /\ pc' = "fedback"
    /\ UNCHANGED << filteredEvents, loading, searchQuery, selectedCategory,
                    selectedType, priceRange, sortBy, urlParams, mounted,
                    timer, pendingEffects, firstIn >>
    /\ UNCHANGED << modalVars, historyVars >>

NextDerive == DeriveStep \/ FeedBack

SpecDerive == InitDerive /\ [][NextDerive]_vars

-----------------------------------------------------------------------------
(* AuthModal.  The file holds two definitions of the component: the first   *)
(* (modalDef = 1) has the effect that copies defaultMode into mode, the     *)
(* second (modalDef = 2) has not.                                           *)

MODES == {"login", "signup"}

InitModal ==
    /\ modalDef \in {1, 2}
    /\ defaultMode \in MODES
    /\ mode = defaultMode
    /\ isOpen \in BOOLEAN
    /\ syncPending = (modalDef = 1)
    /\ closeCalls = 0
    /\ resetDue = FALSE
    /\ PageIdle /\ HarnessIdle
    /\ lastOp = "mount" /\ userActed = FALSE /\ navs = 0

\* useEffect(() => setMode(defaultMode), [defaultMode, isOpen])
SyncModeEffect ==
    /\ modalDef = 1 /\ syncPending
    /\ mode' = defaultMode
    /\ syncPending' = FALSE
    /\ UNCHANGED << modalDef, defaultMode, isOpen, closeCalls, resetDue >>
    /\ UNCHANGED << pageVars, harnessVars, historyVars >>

\* Signup's "switch to login" link
switchToLogin ==
    /\ isOpen /\ ~syncPending /\ mode = "signup"
    /\ mode' = "login"
    /\ resetDue' = FALSE
    /\ UNCHANGED << modalDef, defaultMode, isOpen, syncPending, closeCalls >>
    /\ UNCHANGED << pageVars, harnessVars, historyVars >>

\* Login's "switch to signup" link
switchToSignup ==
    /\ isOpen /\ ~syncPending /\ mode = "login"
    /\ mode' = "signup"
    /\ resetDue' = FALSE
    /\ UNCHANGED << modalDef, defaultMode, isOpen, syncPending, closeCalls >>
    /\ UNCHANGED << pageVars, harnessVars, historyVars >>

\* onSuccess of either form, the dialog's onOpenChange, the close button of
\* the second definition: onClose()
handleSuccess ==
    /\ isOpen /\ ~syncPending
    /\ closeCalls < MaxCloseCalls
    /\ closeCalls' = closeCalls + 1
    /\ UNCHANGED << modalDef, mode, defaultMode, isOpen, syncPending, resetDue >>
    /\ UNCHANGED << pageVars, harnessVars, historyVars >>

\* the parent renders the modal with another defaultMode
ChangeDefaultMode ==
    /\ ~syncPending
    /\ defaultMode' = IF defaultMode = "login" THEN "signup" ELSE "login"
    /\ syncPending' = (modalDef = 1)
    /\ resetDue' = isOpen
    /\ UNCHANGED << modalDef, mode, isOpen, closeCalls >>
    /\ UNCHANGED << pageVars, harnessVars, historyVars >>

\* the parent opens or closes the modal
ChangeIsOpen ==
    /\ ~syncPending
    /\ isOpen' = ~isOpen
    /\ syncPending' = (modalDef = 1)
    /\ UNCHANGED << modalDef, mode, defaultMode, closeCalls, resetDue >>
    /\ UNCHANGED << pageVars, harnessVars, historyVars >>

NextModal ==
    \/ SyncModeEffect
    \/ switchToLogin
    \/ switchToSignup
    \/ handleSuccess
    \/ ChangeDefaultMode
    \/ ChangeIsOpen

SpecModal == InitModal /\ [][NextModal]_vars

-----------------------------------------------------------------------------
(* Properties *)

Range(seq) == { seq[i] : i \in 1..Len(seq) }

IndexIn(seq, e) == CHOOSE i \in 1..Len(seq) : seq[i] = e

Derived == pc \in {"derived", "rederived"}

\* e passes the text, category and type filters of the current criteria
PassesOtherFilters(e) ==
    /\ searchQuery # << >> => MatchesSearch(e, ToLowerCase(searchQuery))
    /\ selectedCategory # "" => e.category = selectedCategory
    /\ selectedType = "online" => e.isOnline
    /\ selectedType = "offline" => ~e.isOnline

PassesAllFilters(e) ==
    /\ PassesOtherFilters(e)
    /\ priceRange[1] <= e.price /\ e.price <= priceRange[2]

\* C1: when defaultMode has changed while the modal is open and the change
\* has settled (no effect scheduled, no switch since), mode = defaultMode.
C1_ModeResetsToDefault ==
    (resetDue /\ ~syncPending) => mode = defaultMode

\* C2 as stated: the criteria come only from the defaults and user
\* operations; before any user operation they are the defaults.
C2_CriteriaNeverFromUrl ==
    ~userActed => (searchQuery = << >> /\ selectedCategory = "")

\* C2 amended: at mount searchQuery and selectedCategory are read from the
\* URL's search and category ('' when absent); from then on only a user
\* operation changes them, whatever happens to the URL.
C2_CriteriaFromUrlOnlyAtMount ==
    /\ [](lastOp = "mount" =>
            /\ searchQuery = GetOrEmpty(urlParams.search, << >>)
            /\ selectedCategory = GetOrEmpty(urlParams.category, ""))
    /\ [][(searchQuery' # searchQuery \/ selectedCategory' # selectedCategory)
            => lastOp' = "user"]_vars

C2_Witness ==
    /\ lastOp = "navigate"
    /\ userActed
    /\ urlParams.search = Present(<<"a">>)
    /\ searchQuery = <<"B">>

\* C3: once the URL effect has run, the URL holds search iff searchQuery is
\* non-empty (and then searchQuery), category iff selectedCategory is
\* non-empty (and then selectedCategory), and no other parameter.
C3_UrlIsProjection ==
    lastOp = "urlEffect" =>
        /\ (urlParams.search # Absent) <=> (searchQuery # << >>)
        /\ urlParams.search # Absent => urlParams.search[1] = searchQuery
        /\ (urlParams.category # Absent) <=> (selectedCategory # "")
        /\ urlParams.category # Absent => urlParams.category[1] = selectedCategory
        /\ urlParams.others = {}

C3_Witness ==
    /\ lastOp = "urlEffect"
    /\ userActed
    /\ searchQuery = <<"B">>
    /\ selectedCategory = ""
    /\ navs = 1

\* C4: with empty text, category and type and the price range [0, 1000], the
\* output holds exactly the input records, each once.
C4_DefaultsGivePermutation ==
    ( /\ Derived
      /\ searchQuery = << >> /\ selectedCategory = "" /\ selectedType = ""
      /\ priceRange = <<SLIDER_MIN, SLIDER_MAX>> )
    => /\ Len(filteredEvents) = Len(events)
       /\ Range(filteredEvents) = Range(events)

\* the two records have the same key under the sort key
SameKey(a, b, key) ==
    CASE key = "date"       -> a.date = b.date
      [] key = "price-low"  -> a.price = b.price
      [] key = "price-high" -> a.price = b.price
      [] key = "popularity" -> AttendeesOrZero(a) = AttendeesOrZero(b)
      [] key = "name"       -> a.title = b.title
      [] OTHER              -> FALSE

\* C5: records of the output with equal sort keys are in their input order.
C5_SortStable ==
    (Derived /\ sortBy \in SORT_KEYS) =>
        \A i, j \in 1..Len(filteredEvents) :
            (i < j /\ SameKey(filteredEvents[i], filteredEvents[j], sortBy))
            => IndexIn(events, filteredEvents[i]) < IndexIn(events, filteredEvents[j])

C5_Witness ==
    /\ pc = "derived"
    /\ sortBy = "popularity"
    /\ Len(filteredEvents) = 3
    /\ filteredEvents # events
    /\ filteredEvents[2].attendees = Absent
    /\ filteredEvents[3].attendees = Present(0)

\* lexicographic order of the titles' code units
LeqCodeUnits(s, t) == LexCompare("codeunit", s, t, 1) <= 0

\* the order localeCompare gives
LeqCollation(s, t) == LocaleCompare(s, t) <= 0

\* a precedes-or-equals b in the order the sort key asks for; titles are
\* compared by code units when byCodeUnits, else by collation
KeyOrdered(a, b, key, byCodeUnits) ==
    CASE key = "date"       -> DateValue(a.date) <= DateValue(b.date)
      [] key = "price-low"  -> a.price <= b.price
      [] key = "price-high" -> a.price >= b.price
      [] key = "popularity" -> AttendeesOrZero(a) >= AttendeesOrZero(b)
      [] key = "name"       -> IF byCodeUnits THEN LeqCodeUnits(a.title, b.title)
                               ELSE LeqCollation(a.title, b.title)
      [] OTHER              -> TRUE

AdjacentOrdered(byCodeUnits) ==
    \A i \in 1..(Len(filteredEvents) - 1) :
        KeyOrdered(filteredEvents[i], filteredEvents[i + 1], sortBy, byCodeUnits)

\* C6 as stated: every adjacent pair of the output is ordered by the sort
\* key, titles in lexicographic order for name.
C6_SortedLexicographic ==
    Derived => /\ AdjacentOrdered(TRUE)
               /\ \A e \in Range(filteredEvents) : PassesAllFilters(e)

\* C6 amended: every adjacent pair of the output is ordered by the sort
\* key, titles in localeCompare's collation order for name (letters first,
\* case only as a tie-break, lower case first); every record of the output
\* passes every filter.
C6_SortedByKey ==
    Derived => /\ AdjacentOrdered(FALSE)
               /\ \A e \in Range(filteredEvents) : PassesAllFilters(e)

C6_Witness ==
    /\ pc = "derived"
    /\ sortBy = "name"
    /\ Len(filteredEvents) = 3
    /\ filteredEvents # events
    /\ \E i \in 1..2 :
          ~LeqCodeUnits(filteredEvents[i].title, filteredEvents[i + 1].title)

\* C7: an input record is in the output iff it passes the other filters and
\* min <= price <= max.
C7_PriceBoundsInclusive ==
    Derived =>
        \A e \in Range(events) :
            (e \in Range(filteredEvents))
            <=> ( /\ PassesOtherFilters(e)
                  /\ priceRange[1] <= e.price
                  /\ e.price <= priceRange[2] )

C7_Witness ==
    /\ pc = "derived"
    /\ priceRange[1] > SLIDER_MIN
    /\ \E e \in Range(filteredEvents) : e.price = priceRange[1]
    /\ \E e \in Range(filteredEvents) : e.price = priceRange[2]
    /\ \E e \in Range(events) : e.price < priceRange[1] \/ e.price > priceRange[2]

\* C8: derive leaves its input as it was, and derive of derive's output
\* under the same criteria is that output, in the same order.
C8_Idempotent ==
    /\ pc = "derived" => events = firstIn
    /\ pc = "rederived" => (filteredEvents = firstOut /\ events = firstOut)

C8_Witness ==
    /\ pc = "rederived"
    /\ Len(filteredEvents) >= 2
    /\ firstOut # firstIn
    /\ Len(firstIn) > Len(firstOut)
    /\ firstOut # SelectSeq(firstIn, LAMBDA e : e \in Range(firstOut))

\* C9: a type outside {"", online, offline}, an empty query and an empty
\* category filter nothing, and an unknown sort key keeps the input order.
C9_InvalidCriteriaFilterNothing ==
    Derived =>
        /\ selectedType \notin EVENT_TYPE_OPTIONS =>
              Range(filteredEvents) =
                 { e \in Range(events) :
                     /\ searchQuery # << >> => MatchesSearch(e, ToLowerCase(searchQuery))
                     /\ selectedCategory # "" => e.category = selectedCategory
                     /\ InPriceRange(e, priceRange) }
        /\ searchQuery = << >> =>
              Range(filteredEvents) =
                 { e \in Range(events) :
                     /\ selectedCategory # "" => e.category = selectedCategory
                     /\ selectedType = "online" => e.isOnline
                     /\ selectedType = "offline" => ~e.isOnline
                     /\ InPriceRange(e, priceRange) }
        /\ selectedCategory = "" =>
              Range(filteredEvents) =
                 { e \in Range(events) :
                     /\ searchQuery # << >> => MatchesSearch(e, ToLowerCase(searchQuery))
                     /\ selectedType = "online" => e.isOnline
                     /\ selectedType = "offline" => ~e.isOnline
                     /\ InPriceRange(e, priceRange) }
        /\ sortBy \notin SORT_KEYS =>
              filteredEvents = SelectSeq(events, PassesAllFilters)

C9_Witness ==
    /\ pc = "derived"
    /\ selectedType = "hybrid"
    /\ sortBy = "rating"
    /\ searchQuery = << >>
    /\ selectedCategory = ""
    /\ Len(filteredEvents) = 3
    /\ \E e \in Range(filteredEvents) : ~e.isOnline
    /\ \E i \in 1..2 : filteredEvents[i].price > filteredEvents[i + 1].price

DeriveCurrent ==
    Derive(events, searchQuery, selectedCategory, selectedType, priceRange, sortBy)

\* C11: on a mounted page with no effect pending, filteredEvents is
\* derive(events, current criteria); filteredEvents always holds records of
\* events only, each at most once; and a page that stays reaches such a
\* settled state again and again, whatever the user does.
C11_DisplayedListEventuallyDerived ==
    /\ []((mounted /\ pendingEffects = {}) => filteredEvents = DeriveCurrent)
    /\ [](/\ Range(filteredEvents) \subseteq Range(events)
          /\ Cardinality(Range(filteredEvents)) = Len(filteredEvents))
    /\ []<>(~mounted \/ (pendingEffects = {} /\ filteredEvents = DeriveCurrent))

C11_Witness ==
    /\ mounted
    /\ pendingEffects = {}
    /\ timer = "fired"
    /\ userActed
    /\ sortBy = "price-high"
    /\ selectedType = "offline"
    /\ Len(filteredEvents) = 2
    /\ filteredEvents # SelectSeq(events, LAMBDA e : e \in Range(filteredEvents))

\* the state is one a render has committed: nothing is pending, or the last
\* step was the update whose render scheduled the pending effects
Rendered ==
    /\ mounted
    /\ pendingEffects = {} \/ lastOp \in {"mount", "user", "loadResolve"}

\* C12: in every rendered state that shows "No events found" (loading false,
\* filteredEvents empty), derive(events, current criteria) is empty.
C12_EmptyStateOnlyWithoutMatches ==
    (Rendered /\ View = "empty") => DeriveCurrent = << >>

====
